---------------------------- MODULE Spec2Model ----------------------------
(***************************************************************************)
(* A model of three operations of bip_utils:                               *)
(*                                                                         *)
(*   Bip32PathParser.Parse           src/bip_utils/bip/bip32_path.py       *)
(*   ElectrumOldMnemonicDecoder.Decode                                     *)
(*       src/bip_utils/electrum/old_mnemonic/electrum_old_mnemonic_decoder.py *)
(*   AtomAddr.EncodeKey              src/bip_utils/addr/atom_addr.py       *)
(*                                                                         *)
(* Each operation has a specification of its own (SpecPath, SpecMnemonic,  *)
(* SpecAddr): a caller builds an argument, calls the operation, and the    *)
(* operation runs to a return value or to a raised exception.              *)
(*                                                                         *)
(* Python integers are unbounded and TLC's are 32 bits wide, so an index   *)
(* of a path is kept as the sequence of its decimal digits (most           *)
(* significant first, no leading zero), and a word triple's value as the   *)
(* sequence of its base-256 digits.                                        *)
(***************************************************************************)
EXTENDS Integers, Sequences, FiniteSets, TLC

VARIABLES
    \* ---- Bip32PathParser.Parse
    path,          \* the argument: a string, as the sequence of its characters
    nPieces,       \* how many pieces the caller has put together
    pathPc,        \* "input" | "done"
    pathResult,    \* [raised, m_elems]: the exception, or the Bip32Path
    \* ---- ElectrumOldMnemonicDecoder.Decode
    m_lang,        \* the language given at construction, "None" for detection
    mnemonic,      \* the argument: the words of the Mnemonic object
    nExtra,        \* how many single words the caller appended after the triples
    mnPc,          \* "input" | "check" | "lang" | "loop" | "done"
    words_list,    \* Decode's local: the resolved words list, "unset" before
    chunk_i,       \* the loop variable i of Decode
    entropy_bytes, \* Decode's accumulator
    lookups,       \* how many words were looked up in a words list so far
    mnRaised,      \* "" or the exception Decode raised
    \* ---- AtomAddr.EncodeKey
    pub_key,       \* the argument: a key as bytes or as an object
    kwargs,        \* the keyword arguments: a set of [key, val]
    addrPc,        \* "input" | "hrp" | "validate" | "encode" | "done"
    hrp,           \* EncodeKey's local
    pub_key_obj,   \* EncodeKey's local
    hashCalls,     \* how many times CryptoUtils.Hash160 was called
    bech32Calls,   \* how many times Bech32Encoder.Encode was called
    addrResult     \* [raised, address]

pathVars == <<path, nPieces, pathPc, pathResult>>
mnVars == <<m_lang, mnemonic, nExtra, mnPc, words_list, chunk_i, entropy_bytes,
            lookups, mnRaised>>
addrVars == <<pub_key, kwargs, addrPc, hrp, pub_key_obj, hashCalls, bech32Calls,
              addrResult>>
vars == <<pathVars, mnVars, addrVars>>

\* ------------------------------------------------------------------ bounds

\* The longest path string the caller builds, in pieces of PathPieces.
MaxPieces == 4

(***************************************************************************)
(*                         Unbounded naturals                              *)
(***************************************************************************)

Rev(s) == [i \in 1..Len(s) |-> s[Len(s) + 1 - i]]

RECURSIVE Normalize(_)
\* The digits of a number without its leading zeros (zero is <<0>>).
Normalize(ds) ==
    IF Len(ds) > 1 /\ Head(ds) = 0 THEN Normalize(Tail(ds))
    ELSE IF ds = <<>> THEN <<0>> ELSE ds

RECURSIVE AddLE(_, _, _)
\* Digit-wise addition, least significant digit first, with carry c.
AddLE(a, b, c) ==
    IF a = <<>> /\ b = <<>> THEN (IF c = 0 THEN <<>> ELSE <<c>>)
    ELSE LET x == IF a = <<>> THEN 0 ELSE Head(a)
             y == IF b = <<>> THEN 0 ELSE Head(b)
             s == x + y + c
         IN  <<s % 10>> \o AddLE(IF a = <<>> THEN a ELSE Tail(a),
                                 IF b = <<>> THEN b ELSE Tail(b),
                                 s \div 10)

\* a + b on decimal digit sequences.
Add(a, b) == Normalize(Rev(AddLE(Rev(a), Rev(b), 0)))

\* 2^31, the hardened bit of an index.
TwoPow31 == <<2, 1, 4, 7, 4, 8, 3, 6, 4, 8>>

(***************************************************************************)
(*                    Python strings and their methods                     *)
(*                                                                         *)
(* A character is a one-character TLA+ string; the characters outside      *)
(* ASCII are named by their code point: U+00B2 SUPERSCRIPT TWO, U+00BD     *)
(* VULGAR FRACTION ONE HALF (numeric, not decimal) and U+0663              *)
(* ARABIC-INDIC DIGIT THREE (decimal).                                     *)
(***************************************************************************)

AsciiDigits == {"0", "1", "2", "3", "4", "5", "6", "7", "8", "9"}
DecimalChars == AsciiDigits \cup {"U+0663"}
NumericChars == DecimalChars \cup {"U+00B2", "U+00BD"}
Whitespace == {" "}

DigitVal(c) ==
    CASE c = "0" -> 0 [] c = "1" -> 1 [] c = "2" -> 2 [] c = "3" -> 3
      [] c = "4" -> 4 [] c = "5" -> 5 [] c = "6" -> 6 [] c = "7" -> 7
      [] c = "8" -> 8 [] c = "9" -> 9 [] c = "U+0663" -> 3

RECURSIVE LStrip(_)
LStrip(s) == IF s # <<>> /\ Head(s) \in Whitespace THEN LStrip(Tail(s)) ELSE s

\* str.strip(): the string without its leading and trailing whitespace.
Strip(s) == Rev(LStrip(Rev(LStrip(s))))

\* str.endswith(suffixes), each suffix one character long.
EndsWith(s, suffixes) == s # <<>> /\ s[Len(s)] \in suffixes

\* s[:-1]
DropLast(s) == SubSeq(s, 1, Len(s) - 1)

\* str.isnumeric(): at least one character, and all of them numeric.
IsNumeric(s) == s # <<>> /\ \A i \in 1..Len(s) : s[i] \in NumericChars

\* int(s) on a string of numeric characters: the number its decimal digits
\* denote, and ValueError when a character is no decimal digit.
IntOf(s) ==
    IF \A i \in 1..Len(s) : s[i] \in DecimalChars
    THEN [raised |-> "", n |-> Normalize([i \in 1..Len(s) |-> DigitVal(s[i])])]
    ELSE [raised |-> "ValueError", n |-> <<>>]

RECURSIVE Split(_, _)
\* str.split(sep): the pieces between the separators ("" gives one empty piece).
Split(s, sep) ==
    IF \A i \in 1..Len(s) : s[i] # sep THEN <<s>>
    ELSE LET k == CHOOSE i \in 1..Len(s) :
                    s[i] = sep /\ \A j \in 1..(i - 1) : s[j] # sep
         IN  <<SubSeq(s, 1, k - 1)>> \o Split(SubSeq(s, k + 1, Len(s)), sep)

(***************************************************************************)
(*                          Bip32PathParser                                *)
(***************************************************************************)

HARDENED_CHARS == {"'", "p"}
MASTER_CHAR == "m"

\* Bip32Utils.HardenIndex
HardenIndex(n) == Add(n, TwoPow31)

\* Bip32PathElement: m_elem is None or an integer.
NoneElem == [isNone |-> TRUE, n |-> <<>>]
IntElem(n) == [isNone |-> FALSE, n |-> n]

ElemIsValid(e) == ~e.isNone
ElemToInt(e) == e.n

\* __ParseElem taking "'" for the one hardened marker.
ParseElem_OnlyApostrophe(path_elem) ==
    LET stripped == Strip(path_elem)
        is_hardened == EndsWith(stripped, {"'"})
        body == IF is_hardened THEN DropLast(stripped) ELSE stripped
    IN  IF ~IsNumeric(body) THEN [raised |-> "", elem |-> NoneElem]
        ELSE LET v == IntOf(body)
             IN  IF v.raised # "" THEN [raised |-> v.raised, elem |-> NoneElem]
                 ELSE [raised |-> "",
                       elem |-> IntElem(IF is_hardened THEN HardenIndex(v.n)
                                        ELSE v.n)]

\* Bip32PathParser.__ParseElem: [raised, elem].
ParseElem(path_elem) ==
    LET stripped == Strip(path_elem)
        is_hardened == EndsWith(stripped, HARDENED_CHARS)
        body == IF is_hardened THEN DropLast(stripped) ELSE stripped
    IN  IF ~IsNumeric(body) THEN [raised |-> "", elem |-> NoneElem]
        ELSE LET v == IntOf(body)
             IN  IF v.raised # "" THEN [raised |-> v.raised, elem |-> NoneElem]
                 ELSE [raised |-> "",
                       elem |-> IntElem(IF is_hardened THEN HardenIndex(v.n)
                                        ELSE v.n)]

\* Bip32PathParser.__ParseElements: [raised, m_elems].
ParseElements(path_elems) ==
    LET elems == IF Len(path_elems) > 0 /\ path_elems[1] = <<MASTER_CHAR>>
                 THEN Tail(path_elems) ELSE path_elems
        parsed == [i \in 1..Len(elems) |-> ParseElem(elems[i])]
    IN  IF \E i \in 1..Len(parsed) : parsed[i].raised # ""
        THEN [raised |-> "ValueError", m_elems |-> <<>>]
        ELSE [raised |-> "", m_elems |-> [i \in 1..Len(parsed) |-> parsed[i].elem]]

\* Parse keeping a trailing "/".
Parse_KeepTrailingSlash(p) == ParseElements(Split(p, "/"))

\* Bip32PathParser.Parse
Parse(p) ==
    ParseElements(Split(IF EndsWith(p, {"/"}) THEN DropLast(p) ELSE p, "/"))

\* Bip32Path
Length(r) == Len(r.m_elems)
IsValid(r) == \A i \in 1..Len(r.m_elems) : ElemIsValid(r.m_elems[i])
ToList(r) == [i \in 1..Len(r.m_elems) |-> ElemToInt(r.m_elems[i])]

\* What the caller puts a path string together from.
PathPieces ==
    { <<"m">>, <<"/">>, <<"'">>, <<"p">>, <<" ">>, <<"-">>,
      <<"U+00B2">>, <<"U+00BD">>, <<"U+0663">>, <<"0">>, <<"7">>,
      <<"2", "1", "4", "7", "4", "8", "3", "6", "4", "8">>,
      <<"4", "2", "9", "4", "9", "6", "7", "2", "9", "6">> }

NoPathResult == [raised |-> "", m_elems |-> <<>>]

InitPathVars ==
    /\ path = <<>>
    /\ nPieces = 0
    /\ pathPc = "input"
    /\ pathResult = NoPathResult

\* The caller appends a piece to the path string.
BuildPath ==
    /\ pathPc = "input"
    /\ nPieces < MaxPieces
    /\ \E piece \in PathPieces : path' = path \o piece
    /\ nPieces' = nPieces + 1
    /\ UNCHANGED <<pathPc, pathResult>>
    /\ UNCHANGED <<mnVars, addrVars>>

\* The caller calls Bip32PathParser.Parse(path).
CallParse ==
    /\ pathPc = "input"
    /\ pathResult' = Parse(path)
    /\ pathPc' = "done"
    /\ UNCHANGED <<path, nPieces>>
    /\ UNCHANGED <<mnVars, addrVars>>


(***************************************************************************)
(*                     ElectrumOldMnemonicDecoder                          *)
(*                                                                         *)
(* A word is the position it has in the English words list (0 is the       *)
(* first word), and NotInList for a word that no words list holds.         *)
(***************************************************************************)

\* The number of words of an Electrum old words list.
WORDS_LIST_NUM == 1626

\* ElectrumOldMnemonicConst.MNEMONIC_WORD_NUM
MNEMONIC_WORD_NUM == {12}

\* ElectrumOldLanguages
Languages == {"ENGLISH"}

NotInList == -1

\* The longest mnemonic the caller builds, in word triples.
MaxTriples == 4

\* The single words the caller appends after the triples.
MaxExtra == 2

\* The words list of a language: whether it holds a word, and where.
WordsListHas(lang, word) == lang \in Languages /\ word \in 0..(WORDS_LIST_NUM - 1)
GetWordIdx(lang, word) == word

RECURSIVE ToBase256(_)
\* The base-256 digits of a natural, least significant first (zero is <<>>).
ToBase256(x) == IF x = 0 THEN <<>> ELSE <<x % 256>> \o ToBase256(x \div 256)

RECURSIVE MulAdd(_, _, _)
\* ds * k + c on base-256 digits, least significant first.
MulAdd(ds, k, c) ==
    IF ds = <<>> THEN ToBase256(c)
    ELSE LET t == Head(ds) * k + c
         IN  <<t % 256>> \o MulAdd(Tail(ds), k, t \div 256)

RECURSIVE StripZeros(_)
\* Base-256 digits, least significant first, without the zeros at the top.
StripZeros(ds) ==
    IF ds # <<>> /\ ds[Len(ds)] = 0 THEN StripZeros(SubSeq(ds, 1, Len(ds) - 1))
    ELSE ds

\* int.to_bytes(bytes_num, "big") of the number with base-256 digits ds:
\* OverflowError when the number needs more than bytes_num bytes.
ToBytes(ds, bytes_num) ==
    LET d == StripZeros(ds)
    IN  IF Len(d) > bytes_num THEN [raised |-> "OverflowError", bytes |-> <<>>]
        ELSE [raised |-> "",
              bytes |-> [i \in 1..bytes_num |->
                            IF bytes_num + 1 - i <= Len(d)
                            THEN d[bytes_num + 1 - i] ELSE 0]]

\* The base-256 digits of
\*    word1_idx + n * ((word2_idx - word1_idx) % n)
\*              + n * n * ((word3_idx - word2_idx) % n)
ChunkValue(word1_idx, word2_idx, word3_idx, n) ==
    MulAdd(MulAdd(ToBase256((word3_idx - word2_idx) % n), n, 0), n,
           word1_idx + n * ((word2_idx - word1_idx) % n))

\* MnemonicUtils.WordsToBytesChunk(word1, word2, word3, words_list, "big"):
\* [raised, bytes, looked], looked being the words it looked up.
WordsToBytesChunk(word1, word2, word3, lang) ==
    LET ws == <<word1, word2, word3>>
        missing == {k \in 1..3 : ~WordsListHas(lang, ws[k])}
    IN  IF missing # {}
        THEN [raised |-> "ValueError", bytes |-> <<>>,
              looked |-> CHOOSE k \in missing : \A j \in missing : k <= j]
        ELSE LET b == ToBytes(ChunkValue(GetWordIdx(lang, word1),
                                         GetWordIdx(lang, word2),
                                         GetWordIdx(lang, word3),
                                         WORDS_LIST_NUM), 4)
             IN  [raised |-> b.raised, bytes |-> b.bytes, looked |-> 3]

\* MnemonicDecoderBase._FindLanguage: the language given at construction, or
\* the one language whose words list holds every word of the mnemonic.
\* [raised, lang, looked].
FindLanguage(lang, words) ==
    IF lang # "None" THEN [raised |-> "", lang |-> lang, looked |-> 0]
    ELSE LET full == {l \in Languages :
                        \A k \in 1..Len(words) : WordsListHas(l, words[k])}
             looked == Len(words) * Cardinality(Languages)
         IN  IF Cardinality(full) = 1
             THEN [raised |-> "", lang |-> CHOOSE l \in full : TRUE,
                   looked |-> looked]
             ELSE [raised |-> "ValueError", lang |-> "unset", looked |-> looked]

\* The word triples the caller builds a mnemonic from: the smallest and the
\* largest values, the largest value of four bytes and the one after it, and a
\* triple with a word of no list.
TriplePool ==
    { <<0, 0, 0>>, <<3, 1, 2>>, <<489, 1296, 1294>>, <<490, 1297, 1295>>,
      <<1625, 1624, 1623>>, <<7, NotInList, 9>> }

ExtraWords == {0, NotInList}

\* Decode has not been called.
MnIdle ==
    /\ mnemonic = <<>>
    /\ nExtra = 0
    /\ mnPc = "input"
    /\ words_list = "unset"
    /\ chunk_i = 0
    /\ entropy_bytes = <<>>
    /\ lookups = 0
    /\ mnRaised = ""

\* ElectrumOldMnemonicDecoder(lang): a language, or None for detection.
InitMnVars ==
    /\ m_lang \in Languages \cup {"None"}
    /\ MnIdle

\* The caller appends three words to the mnemonic.
AppendTriple ==
    /\ mnPc = "input"
    /\ nExtra = 0
    /\ Len(mnemonic) < 3 * MaxTriples
    /\ \E t \in TriplePool : mnemonic' = mnemonic \o t
    /\ UNCHANGED <<m_lang, nExtra, mnPc, words_list, chunk_i, entropy_bytes,
                   lookups, mnRaised>>
    /\ UNCHANGED <<pathVars, addrVars>>

\* The caller appends one word to the mnemonic.
AppendWord ==
    /\ mnPc = "input"
    /\ nExtra < MaxExtra
    /\ \E w \in ExtraWords : mnemonic' = Append(mnemonic, w)
    /\ nExtra' = nExtra + 1
    /\ UNCHANGED <<m_lang, mnPc, words_list, chunk_i, entropy_bytes, lookups,
                   mnRaised>>
    /\ UNCHANGED <<pathVars, addrVars>>

\* The caller calls Decode(mnemonic) with a Mnemonic object.
CallDecode ==
    /\ mnPc = "input"
    /\ mnPc' = "check"
    /\ UNCHANGED <<m_lang, mnemonic, nExtra, words_list, chunk_i, entropy_bytes,
                   lookups, mnRaised>>
    /\ UNCHANGED <<pathVars, addrVars>>

\* The check of the words count letting every multiple of three through.
CheckWordsCount_MultipleOfThree ==
    /\ mnPc = "check"
    /\ IF Len(mnemonic) % 3 # 0
       THEN mnRaised' = "ValueError" /\ mnPc' = "done"
       ELSE mnRaised' = mnRaised /\ mnPc' = "lang"
    /\ UNCHANGED <<m_lang, mnemonic, nExtra, words_list, chunk_i, entropy_bytes,
                   lookups>>
    /\ UNCHANGED <<pathVars, addrVars>>

\* Decode: the check of the words count.
CheckWordsCount ==
    /\ mnPc = "check"
    /\ IF Len(mnemonic) \notin MNEMONIC_WORD_NUM
       THEN mnRaised' = "ValueError" /\ mnPc' = "done"
       ELSE mnRaised' = mnRaised /\ mnPc' = "lang"
    /\ UNCHANGED <<m_lang, mnemonic, nExtra, words_list, chunk_i, entropy_bytes,
                   lookups>>
    /\ UNCHANGED <<pathVars, addrVars>>

\* Decode: words_list, _ = self._FindLanguage(mnemonic_obj)
ResolveLanguage ==
    /\ mnPc = "lang"
    /\ LET r == FindLanguage(m_lang, mnemonic)
       IN  /\ lookups' = lookups + r.looked
           /\ IF r.raised # ""
              THEN mnRaised' = r.raised /\ mnPc' = "done"
                   /\ UNCHANGED words_list
              ELSE words_list' = r.lang /\ mnPc' = "loop"
                   /\ UNCHANGED mnRaised
    /\ UNCHANGED <<m_lang, mnemonic, nExtra, chunk_i, entropy_bytes>>
    /\ UNCHANGED <<pathVars, addrVars>>

\* Decode: one turn of the loop over the word triples.
DecodeChunk ==
    /\ mnPc = "loop"
    /\ chunk_i < Len(mnemonic) \div 3
    /\ LET r == WordsToBytesChunk(mnemonic[chunk_i * 3 + 1],
                                  mnemonic[chunk_i * 3 + 2],
                                  mnemonic[chunk_i * 3 + 3], words_list)
       IN  /\ lookups' = lookups + r.looked
           /\ IF r.raised # ""
              THEN mnRaised' = r.raised /\ mnPc' = "done"
                   /\ UNCHANGED <<entropy_bytes, chunk_i>>
              ELSE entropy_bytes' = entropy_bytes \o r.bytes
                   /\ chunk_i' = chunk_i + 1
                   /\ UNCHANGED <<mnRaised, mnPc>>
    /\ UNCHANGED <<m_lang, mnemonic, nExtra, words_list>>
    /\ UNCHANGED <<pathVars, addrVars>>

\* Decode: return entropy_bytes
ReturnEntropy ==
    /\ mnPc = "loop"
    /\ chunk_i >= Len(mnemonic) \div 3
    /\ mnPc' = "done"
    /\ UNCHANGED <<m_lang, mnemonic, nExtra, words_list, chunk_i, entropy_bytes,
                   lookups, mnRaised>>
    /\ UNCHANGED <<pathVars, addrVars>>

(***************************************************************************)
(*                               AtomAddr                                  *)
(*                                                                         *)
(* A key argument is bytes or a key object; P and Q are two points of      *)
(* secp256k1 and R is a point of ed25519. The hash and the encoding are    *)
(* kept as the terms of their arguments.                                   *)
(***************************************************************************)

PubKeyArgs ==
    { [type |-> "bytes", data |-> "compressed(P)"],
      [type |-> "bytes", data |-> "compressed(Q)"],
      [type |-> "bytes", data |-> "uncompressed(P)"],
      [type |-> "bytes", data |-> "wrong length"],
      [type |-> "bytes", data |-> "not a point"],
      [type |-> "Secp256k1PublicKey", data |-> "P"],
      [type |-> "Secp256k1PublicKey", data |-> "Q"],
      [type |-> "Ed25519PublicKey", data |-> "R"] }

KwargsArgs ==
    { {}, {<<"net_ver", "00">>}, {<<"hrp", "cosmos">>}, {<<"hrp", "band">>},
      {<<"hrp", "cosmos">>, <<"net_ver", "00">>} }

\* key in kwargs, and kwargs[key]
HasKey(kw, key) == \E e \in kw : e[1] = key
GetItem(kw, key) == (CHOOSE e \in kw : e[1] = key)[2]

\* AddrUtils.ValidateAndGetSecp256k1Key: [raised, point]
ValidateAndGetSecp256k1Key(key) ==
    CASE key.type = "Secp256k1PublicKey" -> [raised |-> "", point |-> key.data]
      [] key.type = "bytes" /\ key.data \in {"compressed(P)", "uncompressed(P)"} ->
            [raised |-> "", point |-> "P"]
      [] key.type = "bytes" /\ key.data = "compressed(Q)" ->
            [raised |-> "", point |-> "Q"]
      [] key.type = "bytes" -> [raised |-> "ValueError", point |-> ""]
      [] OTHER -> [raised |-> "TypeError", point |-> ""]

\* pub_key_obj.RawCompressed().ToBytes()
RawCompressed(point) == <<"compressed", point>>
\* CryptoUtils.Hash160
Hash160(data) == <<"Hash160">> \o data
\* Bech32Encoder.Encode
Bech32Encode(h, data) == <<"Bech32", h>> \o data

NoAddrResult == [raised |-> "", address |-> <<>>]

\* EncodeKey has not been called.
AddrIdle ==
    /\ addrPc = "input"
    /\ hrp = "unset"
    /\ pub_key_obj = "unset"
    /\ hashCalls = 0
    /\ bech32Calls = 0
    /\ addrResult = NoAddrResult

InitAddrVars ==
    /\ pub_key \in PubKeyArgs
    /\ kwargs \in KwargsArgs
    /\ AddrIdle

\* The caller calls AtomAddr.EncodeKey(pub_key, **kwargs).
CallEncodeKey ==
    /\ addrPc = "input"
    /\ addrPc' = "hrp"
    /\ UNCHANGED <<pub_key, kwargs, hrp, pub_key_obj, hashCalls, bech32Calls,
                   addrResult>>
    /\ UNCHANGED <<pathVars, mnVars>>

\* hrp = kwargs.get("hrp", ""): a missing "hrp" read as an empty one.
GetHrp_Default ==
    /\ addrPc = "hrp"
    /\ hrp' = IF HasKey(kwargs, "hrp") THEN GetItem(kwargs, "hrp") ELSE ""
    /\ addrPc' = "validate"
    /\ UNCHANGED <<pub_key, kwargs, pub_key_obj, hashCalls, bech32Calls, addrResult>>
    /\ UNCHANGED <<pathVars, mnVars>>

\* EncodeKey: hrp = kwargs["hrp"]
GetHrp ==
    /\ addrPc = "hrp"
    /\ IF HasKey(kwargs, "hrp")
       THEN /\ hrp' = GetItem(kwargs, "hrp")
            /\ addrPc' = "validate"
            /\ UNCHANGED addrResult
       ELSE /\ addrResult' = [raised |-> "KeyError", address |-> <<>>]
            /\ addrPc' = "done"
            /\ UNCHANGED hrp
    /\ UNCHANGED <<pub_key, kwargs, pub_key_obj, hashCalls, bech32Calls>>
    /\ UNCHANGED <<pathVars, mnVars>>

\* EncodeKey: pub_key_obj = AddrUtils.ValidateAndGetSecp256k1Key(pub_key)
ValidateKey ==
    /\ addrPc = "validate"
    /\ LET r == ValidateAndGetSecp256k1Key(pub_key)
       IN  IF r.raised # ""
           THEN /\ addrResult' = [raised |-> r.raised, address |-> <<>>]
                /\ addrPc' = "done"
                /\ UNCHANGED pub_key_obj
           ELSE /\ pub_key_obj' = r.point
                /\ addrPc' = "encode"
                /\ UNCHANGED addrResult
    /\ UNCHANGED <<pub_key, kwargs, hrp, hashCalls, bech32Calls>>
    /\ UNCHANGED <<pathVars, mnVars>>

\* EncodeKey: return Bech32Encoder.Encode(hrp, CryptoUtils.Hash160(...))
EncodeAddr ==
    /\ addrPc = "encode"
    /\ hashCalls' = hashCalls + 1
    /\ bech32Calls' = bech32Calls + 1
    /\ addrResult' = [raised |-> "",
                      address |-> Bech32Encode(hrp, Hash160(RawCompressed(pub_key_obj)))]
    /\ addrPc' = "done"
    /\ UNCHANGED <<pub_key, kwargs, hrp, pub_key_obj>>
    /\ UNCHANGED <<pathVars, mnVars>>

(***************************************************************************)
(*                           Specifications                                *)
(***************************************************************************)

PathIdle == InitPathVars
AddrArgIdle ==
    /\ pub_key = [type |-> "bytes", data |-> "compressed(P)"]
    /\ kwargs = {}
    /\ AddrIdle

InitPath == InitPathVars /\ m_lang = "ENGLISH" /\ MnIdle /\ AddrArgIdle
NextPath == BuildPath \/ CallParse
SpecPath == InitPath /\ [][NextPath]_vars

InitMnemonic == PathIdle /\ InitMnVars /\ AddrArgIdle
NextMnemonic ==
    \/ AppendTriple
    \/ AppendWord
    \/ CallDecode
    \/ CheckWordsCount
    \/ ResolveLanguage
    \/ DecodeChunk
    \/ ReturnEntropy
SpecMnemonic == InitMnemonic /\ [][NextMnemonic]_vars

InitAddr == PathIdle /\ m_lang = "ENGLISH" /\ MnIdle /\ InitAddrVars
NextAddr == CallEncodeKey \/ GetHrp \/ ValidateKey \/ EncodeAddr
SpecAddr == InitAddr /\ [][NextAddr]_vars

(***************************************************************************)
(*                      Properties of Bip32PathParser                      *)
(***************************************************************************)

\* The places of the separators of a string, and its k-th one.
SlashAt(s) == {i \in 1..Len(s) : s[i] = "/"}
NthSlash(s, k) ==
    CHOOSE i \in SlashAt(s) : Cardinality({j \in SlashAt(s) : j < i}) = k - 1

\* The segments of a string: what stands between its separators.
SegmentsOf(s) ==
    LET n == Cardinality(SlashAt(s))
    IN  [k \in 1..(n + 1) |->
            SubSeq(s, IF k = 1 THEN 1 ELSE NthSlash(s, k - 1) + 1,
                      IF k = n + 1 THEN Len(s) ELSE NthSlash(s, k) - 1)]

\* The segments that stand for an index: all but a leading "m".
IndexSegments(s) ==
    LET segs == SegmentsOf(s)
    IN  IF segs[1] = <<"m">> THEN Tail(segs) ELSE segs

IsMarked(seg) == seg # <<>> /\ seg[Len(seg)] \in {"'", "p"}
Unmarked(seg) == IF IsMarked(seg) THEN SubSeq(seg, 1, Len(seg) - 1) ELSE seg

\* A non-empty run of decimal digits with at most one hardened marker after it.
IsIndexSegment(seg) ==
    /\ Unmarked(seg) # <<>>
    /\ \A i \in 1..Len(Unmarked(seg)) : Unmarked(seg)[i] \in DecimalChars

\* An optional leading "m", then "/"-separated index segments.
IsValidPathString(s) ==
    \A k \in 1..Len(IndexSegments(s)) : IsIndexSegment(IndexSegments(s)[k])

\* The index a segment stands for.
SegmentNumber(seg) ==
    Normalize([i \in 1..Len(Unmarked(seg)) |-> DigitVal(Unmarked(seg)[i])])
ExpectedIndex(seg) ==
    IF IsMarked(seg) THEN Add(SegmentNumber(seg), TwoPow31) ELSE SegmentNumber(seg)

\* C1: for a path string made of an optional leading "m" and "/"-separated
\* segments, each a non-empty run of decimal digits with at most one hardened
\* marker after it, Parse returns a valid path whose integer list is, segment
\* by segment, the number of an unmarked segment and the number + 2^31 of a
\* marked one.
C1_ValidPathParses ==
    (pathPc = "done" /\ IsValidPathString(path)) =>
        /\ pathResult.raised = ""
        /\ IsValid(pathResult)
        /\ Length(pathResult) = Len(IndexSegments(path))
        /\ \A k \in 1..Len(IndexSegments(path)) :
              ToList(pathResult)[k] = ExpectedIndex(IndexSegments(path)[k])

\* A valid string of two segments, the first one hardened, has been parsed.
C1_Witness ==
    /\ pathPc = "done"
    /\ IsValidPathString(path)
    /\ Len(IndexSegments(path)) = 2
    /\ IsMarked(IndexSegments(path)[1])
    /\ ~IsMarked(IndexSegments(path)[2])
    /\ Length(pathResult) = 2

\* Without a tolerated trailing separator.
Untrailed(s) == IF s # <<>> /\ s[Len(s)] = "/" THEN SubSeq(s, 1, Len(s) - 1) ELSE s

\* A segment that, trimmed and without one trailing marker, is empty or holds
\* a character that is no decimal digit.
IsBadSegment(seg) ==
    LET body == Unmarked(Strip(seg))
    IN  body = <<>> \/ \E i \in 1..Len(body) : body[i] \notin DecimalChars

\* C2: when a segment of the path string (a leading "m" apart) is, trimmed and
\* without one trailing hardened marker, empty or not all decimal digits, Parse
\* returns a path that is not valid, the bad segment being an invalid element
\* at its position.
C2_BadSegmentMakesPathInvalid ==
    LET segs == IndexSegments(Untrailed(path))
    IN  (pathPc = "done" /\ \E k \in 1..Len(segs) : IsBadSegment(segs[k])) =>
            /\ pathResult.raised = ""
            /\ ~IsValid(pathResult)
            /\ Length(pathResult) = Len(segs)
            /\ \A k \in 1..Len(segs) :
                  IsBadSegment(segs[k]) => ~ElemIsValid(pathResult.m_elems[k])

\* The valid path strings of C3: the valid ones, those followed by one
\* tolerated separator, and the empty string.
IsToleratedPathString(s) ==
    s = <<>> \/ IsValidPathString(s) \/ IsValidPathString(Untrailed(s))

\* C3 (as stated): for every valid path string s, one that already ends in a
\* tolerated "/" included, Parse(s) and Parse(s + "/") are equal.
C3_TrailingSlashOnAnyValid ==
    (pathPc = "done" /\ IsToleratedPathString(path)) =>
        Parse(path \o <<"/">>) = pathResult

\* C3 (amended): for every path string s that does not already end in "/",
\* Parse(s) and Parse(s + "/") are equal.
C3_TrailingSlashIdempotent ==
    (pathPc = "done" /\ Untrailed(path) = path) =>
        Parse(path \o <<"/">>) = pathResult

\* A valid string of two segments that ends in no separator has been parsed,
\* and the same string with a separator after it parses to the same path.
C3_Witness ==
    /\ pathPc = "done"
    /\ Untrailed(path) = path
    /\ IsValidPathString(path)
    /\ Length(pathResult) = 2
    /\ IsValid(pathResult)
    /\ Parse(path \o <<"/">>) = pathResult

\* C4: Parse of the empty string returns a path of length 0 that is valid.
C4_EmptyStringIsEmptyValidPath ==
    (pathPc = "done" /\ path = <<>>) =>
        /\ pathResult.raised = ""
        /\ Length(pathResult) = 0
        /\ IsValid(pathResult)

\* C5: Parse never raises: whatever the string, it returns a path.
C5_ParseNeverRaises ==
    pathPc = "done" => pathResult.raised = ""

\* a < b on normalized decimal digit sequences.
Less(a, b) ==
    \/ Len(a) < Len(b)
    \/ /\ Len(a) = Len(b)
       /\ \E i \in 1..Len(a) :
            /\ a[i] < b[i]
            /\ \A j \in 1..(i - 1) : a[j] = b[j]

TwoPow32 == <<4, 2, 9, 4, 9, 6, 7, 2, 9, 6>>

\* C10: every valid element of a path Parse returns is at least 0 and less
\* than 2^32.
C10_ElementsAreUint32 ==
    (pathPc = "done" /\ pathResult.raised = "") =>
        \A k \in 1..Length(pathResult) :
            ElemIsValid(pathResult.m_elems[k]) =>
                Less(ElemToInt(pathResult.m_elems[k]), TwoPow32)

(***************************************************************************)
(*                Properties of ElectrumOldMnemonicDecoder                 *)
(***************************************************************************)

\* C6: a mnemonic whose words count is not allowed is rejected by Decode with
\* a decode failure before the language is resolved and before any word is
\* looked up in a words list, and no entropy is returned.
C6_WordsCountRejectedFirst ==
    /\ mnPc \in {"input", "check"} => (lookups = 0 /\ words_list = "unset")
    /\ (Len(mnemonic) \notin MNEMONIC_WORD_NUM /\ mnPc \notin {"input", "check"}) =>
          /\ mnPc = "done"
          /\ mnRaised = "ValueError"
          /\ lookups = 0
          /\ words_list = "unset"
          /\ entropy_bytes = <<>>

\* A decoder that detects the language has rejected a mnemonic of 13 words,
\* all of them words of the list.
C6_Witness ==
    /\ mnPc = "done"
    /\ m_lang = "None"
    /\ Len(mnemonic) = 13
    /\ \A k \in 1..Len(mnemonic) : mnemonic[k] # NotInList
    /\ mnRaised = "ValueError"
    /\ lookups = 0

\* Every word of the mnemonic is a word of the words list.
AllWordsInList ==
    \A k \in 1..Len(mnemonic) : mnemonic[k] \in 0..(WORDS_LIST_NUM - 1)

\* The positions of the words of the i-th triple (the first is triple 0).
TripleAt(i) == SubSeq(mnemonic, 3 * i + 1, 3 * i + 3)

\* p1 + N * ((p2 - p1) mod N) + N^2 * ((p3 - p2) mod N) in two parts: the
\* value divided by 2^16, and the rest of that division.
HighPart(p) ==
    LET inner == ((p[2] - p[1]) % WORDS_LIST_NUM)
                    + WORDS_LIST_NUM * ((p[3] - p[2]) % WORDS_LIST_NUM)
    IN  WORDS_LIST_NUM * (inner \div 65536)
            + (p[1] + WORDS_LIST_NUM * (inner % 65536)) \div 65536
LowPart(p) ==
    LET inner == ((p[2] - p[1]) % WORDS_LIST_NUM)
                    + WORDS_LIST_NUM * ((p[3] - p[2]) % WORDS_LIST_NUM)
    IN  (p[1] + WORDS_LIST_NUM * (inner % 65536)) % 65536

\* The four bytes, big-endian, of the value of a triple.
ExpectedBytes(p) ==
    <<HighPart(p) \div 256, HighPart(p) % 256, LowPart(p) \div 256, LowPart(p) % 256>>

C8_MissingHrpFailsBeforeHashing ==
    /\ addrPc \in {"input", "hrp"} => (hashCalls = 0 /\ bech32Calls = 0)
    /\ (~HasKey(kwargs, "hrp") /\ addrPc \notin {"input", "hrp"}) =>
          /\ addrPc = "done"
          /\ addrResult.raised # ""
          /\ addrResult.address = <<>>
          /\ pub_key_obj = "unset"
          /\ hashCalls = 0
          /\ bech32Calls = 0

\* EncodeKey has failed on a valid key given with "net_ver" and no "hrp".
C8_Witness ==
    /\ addrPc = "done"
    /\ kwargs = {<<"net_ver", "00">>}
    /\ pub_key = [type |-> "bytes", data |-> "compressed(P)"]
    /\ addrResult.raised = "KeyError"

=============================================================================
